---- MODULE Spec2Model ----
(***************************************************************************)
(* Construction-estimate domain of src/main.py: buildings, a two-level     *)
(* tree of budget sections, priced expenditures, the two aggregate         *)
(* reports and the discount operation.                                     *)
(*                                                                         *)
(* Money is kept in cents (price is decimal(20,2)); count is an integer    *)
(* number of units.  A nullable value is a sequence of length 0 (NULL /    *)
(* None) or 1 (the number).                                                *)
(***************************************************************************)
EXTENDS Integers, Sequences, FiniteSets, TLC

VARIABLES buildings,     \* stored Building rows: set of ids
          sections,      \* stored Section rows: id -> [building, parent]
          expenditures,  \* stored Expenditure rows: id -> [section, type, count, price]
          nextId,        \* auto-increment counters per table
          op,            \* the last operation called and its arguments
          result,        \* what that operation returned or raised
          pc,            \* concurrent callers of update_with_discount: position
          args,          \* concurrent callers: their arguments
          local          \* concurrent callers: the loaded `section` instance

vars == <<buildings, sections, expenditures, nextId, op, result, pc, args, local>>
db == <<buildings, sections, expenditures>>

----------------------------------------------------------------------------
\* Bound of the model: the number of rows ever inserted, over the three tables.
MaxRows == 5

\* parent = NULL (null=True); also the id of an instance not saved yet.
None == 0

Counts == {2}
Prices == {1000}
Discounts == {-1, 0, 10, 50, 100, 150}
Callers == {1, 2}

WORK == "work"
MATERIAL == "material"
Types == {WORK, MATERIAL}

Null == <<>>
Some(n) == <<n>>

Ok(v) == [status |-> "ok", value |-> v]
Raise(e) == [status |-> e, value |-> {}]
NoOp == [name |-> "init", id |-> None, building |-> None, parent |-> None, discount |-> 0]
Call(n, i, b, p, d) == [name |-> n, id |-> i, building |-> b, parent |-> p, discount |-> d]

\* Rows inserted so far: the auto-increment counters start at 1.
Inserted == (nextId.building - 1) + (nextId.section - 1) + (nextId.expenditure - 1)

\* Reverse relations of the foreign keys, over the stored rows.
SectionsOfBuilding(b) == {s \in DOMAIN sections : sections[s].building = b}
ChildSections(id) == {s \in DOMAIN sections : sections[s].parent = id}
ExpendituresOf(S) == {e \in DOMAIN expenditures : expenditures[e].section \in S}

RECURSIVE Descendants(_)
Descendants(S) ==
    LET next == S \cup UNION {ChildSections(s) : s \in S}
    IN IF next = S THEN S ELSE Descendants(next)

----------------------------------------------------------------------------
\* The check without its look at the parent's parent: any child is refused.
SaveRejectsAnyParent(id, parent) ==
    /\ id = None
    /\ parent # None

\* Section.save(): the depth check runs only for an instance without id whose
\* parent is set; self.parent and self.parent.parent are read from the stored
\* rows.  Returns TRUE when ValidationError is raised.
SaveRejects(id, parent) ==
    /\ id = None
    /\ parent # None
    /\ sections[parent].parent # None

\* Section(building=b, parent=p).save() for an instance with no id.
CreateSection(b, p) ==
    /\ Inserted < MaxRows
    /\ b \in buildings
    /\ p \in DOMAIN sections \cup {None}
    /\ op' = Call("create_section", None, b, p, 0)
    /\ IF SaveRejects(None, p)
          THEN /\ result' = Raise("ValidationError")
               /\ UNCHANGED <<sections, nextId>>
          ELSE /\ sections' = [i \in DOMAIN sections \cup {nextId.section} |->
                                  IF i = nextId.section
                                     THEN [building |-> b, parent |-> p]
                                     ELSE sections[i]]
               /\ nextId' = [nextId EXCEPT !.section = @ + 1]
               /\ result' = Ok({})
    /\ UNCHANGED <<buildings, expenditures, pc, args, local>>

\* s = Section.objects.get(pk=id); s.parent = p; s.save()
\* The caller re-parents within the forest: p is neither the section itself
\* nor one of its descendants.
ResaveSection(id, p) ==
    /\ id \in DOMAIN sections
    /\ p \in (DOMAIN sections \ Descendants({id})) \cup {None}
    /\ op' = Call("resave_section", id, sections[id].building, p, 0)
    /\ IF SaveRejects(id, p)
          THEN /\ result' = Raise("ValidationError")
               /\ UNCHANGED sections
          ELSE /\ sections' = [sections EXCEPT ![id].parent = p]
               /\ result' = Ok({})
    /\ UNCHANGED <<buildings, expenditures, nextId, pc, args, local>>

\* Building(name=...).save()
CreateBuilding ==
    /\ Inserted < MaxRows
    /\ buildings' = buildings \cup {nextId.building}
    /\ nextId' = [nextId EXCEPT !.building = @ + 1]
    /\ op' = Call("create_building", None, nextId.building, None, 0)
    /\ result' = Ok({})
    /\ UNCHANGED <<sections, expenditures, pc, args, local>>

\* Expenditure(section=s, type=t, count=c, price=p).save(): Model.save() with
\* no override; the help_text of `section` is not checked anywhere.
CreateExpenditure(s, t, c, p) ==
    /\ Inserted < MaxRows
    /\ s \in DOMAIN sections
    /\ expenditures' = [i \in DOMAIN expenditures \cup {nextId.expenditure} |->
                           IF i = nextId.expenditure
                              THEN [section |-> s, type |-> t, count |-> c, price |-> p]
                              ELSE expenditures[i]]
    /\ nextId' = [nextId EXCEPT !.expenditure = @ + 1]
    /\ op' = Call("create_expenditure", None, None, s, 0)
    /\ result' = Ok({})
    /\ UNCHANGED <<buildings, sections, pc, args, local>>

----------------------------------------------------------------------------
\* The parent relation deleting the children along.
SectionParentOnDeleteCascade == "CASCADE"

\* on_delete of the three foreign keys.
SectionBuildingOnDelete == "PROTECT"
SectionParentOnDelete == "PROTECT"
ExpenditureSectionOnDelete == "PROTECT"

Restrict(f, D) == [x \in D |-> f[x]]

\* Deleting a set of sections: the collector follows the reverse relations
\* `parent` and `section`; a PROTECT relation with rows behind it raises
\* ProtectedError, a CASCADE relation deletes them too.
SectionsProtected(S) ==
    \/ SectionParentOnDelete = "PROTECT" /\ \E s \in S : ChildSections(s) # {}
    \/ ExpenditureSectionOnDelete = "PROTECT" /\ ExpendituresOf(S) # {}

CollectSections(S) == IF SectionParentOnDelete = "CASCADE" THEN Descendants(S) ELSE S

\* Building.objects.get(pk=b).delete()
DeleteBuilding(b) ==
    /\ b \in buildings
    /\ op' = Call("delete_building", b, b, None, 0)
    /\ LET direct == SectionsOfBuilding(b)
           gone == IF SectionBuildingOnDelete = "CASCADE" THEN CollectSections(direct) ELSE {}
       IN IF \/ SectionBuildingOnDelete = "PROTECT" /\ direct # {}
             \/ SectionBuildingOnDelete = "CASCADE" /\ SectionsProtected(gone)
             THEN /\ result' = Raise("ProtectedError")
                  /\ UNCHANGED <<buildings, sections, expenditures>>
             ELSE /\ buildings' = buildings \ {b}
                  /\ sections' = Restrict(sections, DOMAIN sections \ gone)
                  /\ expenditures' = Restrict(expenditures,
                                              DOMAIN expenditures \ ExpendituresOf(gone))
                  /\ result' = Ok({})
    /\ UNCHANGED <<nextId, pc, args, local>>

\* Section.objects.get(pk=id).delete()
DeleteSection(id) ==
    /\ id \in DOMAIN sections
    /\ op' = Call("delete_section", id, None, None, 0)
    /\ LET gone == CollectSections({id})
       IN IF SectionsProtected(gone)
             THEN /\ result' = Raise("ProtectedError")
                  /\ UNCHANGED <<sections, expenditures>>
             ELSE /\ sections' = Restrict(sections, DOMAIN sections \ gone)
                  /\ expenditures' = Restrict(expenditures,
                                              DOMAIN expenditures \ ExpendituresOf(gone))
                  /\ result' = Ok({})
    /\ UNCHANGED <<buildings, nextId, pc, args, local>>

\* Expenditure.objects.get(pk=id).delete(): nothing refers to an expenditure.
DeleteExpenditure(id) ==
    /\ id \in DOMAIN expenditures
    /\ op' = Call("delete_expenditure", id, None, None, 0)
    /\ expenditures' = Restrict(expenditures, DOMAIN expenditures \ {id})
    /\ result' = Ok({})
    /\ UNCHANGED <<buildings, sections, nextId, pc, args, local>>

----------------------------------------------------------------------------
\* Lookup names of each model: concrete columns, and relations (forward
\* foreign keys and the reverse relations, named after the referring model
\* because no related_name is given).
Columns ==
    [Building |-> {"id", "name"},
     Section |-> {"id"},
     Expenditure |-> {"id", "name", "type", "count", "price"}]

Relations ==
    [Building |-> [section |-> "Section"],
     Section |-> [building |-> "Building", parent |-> "Section",
                  section |-> "Section", expenditure |-> "Expenditure"],
     Expenditure |-> [section |-> "Section"]]

\* Whether a lookup path (the parts of 'a__b__c') resolves from a model.
RECURSIVE Resolves(_, _)
Resolves(model, path) ==
    IF Len(path) = 1
       THEN Head(path) \in Columns[model] \cup DOMAIN Relations[model]
       ELSE /\ Head(path) \in DOMAIN Relations[model]
            /\ Resolves(Relations[model][Head(path)], Tail(path))

\* Rows joined to row `id` of `model` through relation `name`.
Related(model, id, name) ==
    CASE model = "Building" /\ name = "section" -> SectionsOfBuilding(id)
      [] model = "Section" /\ name = "building" -> {sections[id].building}
      [] model = "Section" /\ name = "parent" -> {sections[id].parent} \ {None}
      [] model = "Section" /\ name = "section" -> ChildSections(id)
      [] model = "Section" /\ name = "expenditure" -> ExpendituresOf({id})
      [] model = "Expenditure" /\ name = "section" -> {expenditures[id].section}

\* Rows of the last relation of `rels` joined to the rows `ids` of `model`.
RECURSIVE JoinRows(_, _, _)
JoinRows(model, ids, rels) ==
    IF rels = <<>>
       THEN ids
       ELSE JoinRows(Relations[model][Head(rels)],
                     UNION {Related(model, i, Head(rels)) : i \in ids},
                     Tail(rels))

RECURSIVE SumLines(_)
SumLines(E) ==
    IF E = {} THEN 0
    ELSE LET e == CHOOSE x \in E : TRUE
         IN expenditures[e].count * expenditures[e].price + SumLines(E \ {e})

\* Sum(F(count) * F(price)) over a set of joined expenditure rows: SQL SUM of
\* no rows is NULL.
Sum(E) == IF E = {} THEN Null ELSE Some(SumLines(E))

Front(path) == SubSeq(path, 1, Len(path) - 1)

\* The lookups of get_parent_sections.
ParentPricePath == <<"section", "price">>
ParentCountPath == <<"section", "count">>

\* get_parent_sections(building_id): annotate() resolves the F() lookups from
\* Section when it is called; the filter of budget_child holds an OuterRef
\* outside any subquery, which the query compiler refuses.
get_parent_sections(building_id) ==
    IF ~ (Resolves("Section", ParentPricePath) /\ Resolves("Section", ParentCountPath))
       THEN Raise("FieldError")
       ELSE Raise("ValueError")

GetParentSections(b) ==
    /\ b \in buildings
    /\ op' = Call("get_parent_sections", None, b, None, 0)
    /\ result' = get_parent_sections(b)
    /\ UNCHANGED <<buildings, sections, expenditures, nextId, pc, args, local>>

\* The lookups of get_buildings.
BuildingCountPath == <<"building", "section", "count">>
BuildingPricePath == <<"building", "section", "price">>
BuildingTypePath == <<"building", "section", "type">>

\* get_buildings(): annotate() resolves the lookups from Building; each amount
\* is a filtered Sum over the joined rows, returned as it comes (no default).
get_buildings ==
    IF ~ /\ Resolves("Building", BuildingCountPath)
         /\ Resolves("Building", BuildingPricePath)
         /\ Resolves("Building", BuildingTypePath)
       THEN Raise("FieldError")
       ELSE LET rows(b) == JoinRows("Building", {b}, Front(BuildingCountPath))
                amount(b, t) == Sum({e \in rows(b) : expenditures[e].type = t})
            IN Ok({[id |-> b,
                    works_amount |-> amount(b, WORK),
                    materials_amount |-> amount(b, MATERIAL)] : b \in buildings})

GetBuildings ==
    /\ op' = Call("get_buildings", None, None, None, 0)
    /\ result' = get_buildings
    /\ UNCHANGED <<buildings, sections, expenditures, nextId, pc, args, local>>

----------------------------------------------------------------------------
\* The instance Section.objects.get(pk=id) returns: one attribute per field
\* of the model.
Instance(id) == [id |-> id, building |-> sections[id].building, parent |-> sections[id].parent]

HasAttr(obj, name) == name \in DOMAIN obj

\* price - price / 100 * discount in exact decimal arithmetic, price in cents
\* and the result in hundredths of a cent.
Discounted(price, discount) == price * 100 - price * discount

\* Model.save() of a loaded instance: writes the columns of the model.
SavedRow(section) == [building |-> section.building, parent |-> section.parent]

----------------------------------------------------------------------------
\* update_with_discount(section_id, discount), statement by statement, for
\* callers that may run concurrently.  A finished call leaves its outcome in
\* pc: "ok" or the exception raised.
Begin(c, section_id, discount) ==
    /\ pc[c] = "idle"
    /\ pc' = [pc EXCEPT ![c] = "check"]
    /\ args' = [args EXCEPT ![c] = [section_id |-> section_id, discount |-> discount]]
    /\ UNCHANGED <<buildings, sections, expenditures, nextId, op, result, local>>

\* The guard without its lower bound.
OutOfRangeUpperOnly(discount) == discount > 100

\* The guard of update_with_discount.
OutOfRange(discount) == discount < 0 \/ discount > 100

\* if discount < 0 or discount > 100: raise ValidationError
Check(c) ==
    /\ pc[c] = "check"
    /\ pc' = [pc EXCEPT ![c] = IF OutOfRange(args[c].discount)
                                  THEN "ValidationError" ELSE "get"]
    /\ UNCHANGED <<buildings, sections, expenditures, nextId, op, result, args, local>>

\* section = Section.objects.get(pk=section_id)
Get(c) ==
    /\ pc[c] = "get"
    /\ IF args[c].section_id \in DOMAIN sections
          THEN /\ local' = [local EXCEPT ![c] = <<Instance(args[c].section_id)>>]
               /\ pc' = [pc EXCEPT ![c] = "compute"]
          ELSE /\ pc' = [pc EXCEPT ![c] = "DoesNotExist"]
               /\ UNCHANGED local
    /\ UNCHANGED <<buildings, sections, expenditures, nextId, op, result, args>>

\* discount_amount = section.price / 100 * discount; section.price = ...;
\* section.save()
ComputeAndSave(c) ==
    /\ pc[c] = "compute"
    /\ LET section == local[c][1]
       IN IF ~ HasAttr(section, "price")
             THEN /\ pc' = [pc EXCEPT ![c] = "AttributeError"]
                  /\ UNCHANGED <<sections, local>>
             ELSE LET updated == [section EXCEPT
                                     !.price = Discounted(section.price, args[c].discount)]
                  IN /\ local' = [local EXCEPT ![c] = <<updated>>]
                     /\ sections' = IF section.id \in DOMAIN sections
                                       THEN [sections EXCEPT ![section.id] = SavedRow(updated)]
                                       ELSE sections
                     /\ pc' = [pc EXCEPT ![c] = "ok"]
    /\ UNCHANGED <<buildings, expenditures, nextId, op, result, args>>

----------------------------------------------------------------------------
Ids(n) == 1..n

Idle ==
    /\ pc = [c \in Callers |-> "idle"]
    /\ args = [c \in Callers |-> [section_id |-> None, discount |-> 0]]
    /\ local = [c \in Callers |-> <<>>]

Init ==
    /\ buildings = {}
    /\ sections = <<>>
    /\ expenditures = <<>>
    /\ nextId = [building |-> 1, section |-> 1, expenditure |-> 1]
    /\ op = NoOp
    /\ result = Ok({})
    /\ Idle

Next ==
    \/ CreateBuilding
    \/ \E b \in Ids(MaxRows), p \in Ids(MaxRows) \cup {None} : CreateSection(b, p)
    \/ \E id \in Ids(MaxRows), p \in Ids(MaxRows) \cup {None} : ResaveSection(id, p)
    \/ \E s \in Ids(MaxRows), t \in Types, c \in Counts, p \in Prices :
          CreateExpenditure(s, t, c, p)
    \/ \E b \in Ids(MaxRows) : DeleteBuilding(b)
    \/ \E id \in Ids(MaxRows) : DeleteSection(id)
    \/ \E id \in Ids(MaxRows) : DeleteExpenditure(id)
    \/ \E b \in Ids(MaxRows) : GetParentSections(b)
    \/ GetBuildings

Spec == Init /\ [][Next]_vars

\* Two callers of update_with_discount over a stored estimate: building 1 with
\* root section 1, its child section 2 and one expenditure on the child.
InitConc ==
    /\ buildings = {1}
    /\ sections = <<[building |-> 1, parent |-> None], [building |-> 1, parent |-> 1]>>
    /\ expenditures = << [section |-> 2, type |-> WORK, count |-> 2, price |-> 1000] >>
    /\ nextId = [building |-> 2, section |-> 3, expenditure |-> 2]
    /\ op = NoOp
    /\ result = Ok({})
    /\ Idle

NextConc ==
    \/ \E c \in Callers, id \in Ids(MaxRows), d \in Discounts : Begin(c, id, d)
    \/ \E c \in Callers : Check(c)
    \/ \E c \in Callers : Get(c)
    \/ \E c \in Callers : ComputeAndSave(c)

SpecConc == InitConc /\ [][NextConc]_vars

----------------------------------------------------------------------------
\* Properties.

SectionHasParent(id) == sections[id].parent # None

\* C1: creating a section (an instance with no id) succeeds exactly when its
\* parent is null or its parent has a null parent, and then stores the row;
\* when the parent itself has a parent it raises ValidationError and nothing
\* stored changes.
C1_CreateSection ==
    [][op'.name = "create_section" =>
         IF op'.parent # None /\ SectionHasParent(op'.parent)
            THEN /\ result'.status = "ValidationError"
                 /\ db' = db
            ELSE /\ result'.status = "ok"
                 /\ DOMAIN sections' = DOMAIN sections \cup {nextId.section}
                 /\ nextId.section \notin DOMAIN sections
                 /\ sections'[nextId.section] = [building |-> op'.building, parent |-> op'.parent]
                 /\ \A s \in DOMAIN sections : sections'[s] = sections[s]]_vars

\* A third level was asked for and refused.
C1_Witness ==
    /\ op.name = "create_section"
    /\ op.parent # None
    /\ SectionHasParent(op.parent)
    /\ result.status = "ValidationError"

\* C2: in every reachable state no section has a parent that itself has a
\* parent (the section tree never exceeds 2 levels).
C2_TwoLevels ==
    \A s \in DOMAIN sections :
        SectionHasParent(s) => ~ SectionHasParent(sections[s].parent)

\* C8: deleting a building that still has sections, or a section that still
\* has child sections or expenditures, raises the integrity error and changes
\* nothing stored; and every section's building, every non-null parent and
\* every expenditure's section is a stored row.
ReferencesExist ==
    /\ \A s \in DOMAIN sections :
          /\ sections[s].building \in buildings
          /\ SectionHasParent(s) => sections[s].parent \in DOMAIN sections
    /\ \A e \in DOMAIN expenditures : expenditures[e].section \in DOMAIN sections

C8_ProtectedDelete ==
    /\ []ReferencesExist
    /\ [][/\ (op'.name = "delete_building" /\ SectionsOfBuilding(op'.id) # {})
               => (result'.status = "ProtectedError" /\ db' = db)
          /\ (op'.name = "delete_section"
                /\ (ChildSections(op'.id) # {} \/ ExpendituresOf({op'.id}) # {}))
               => (result'.status = "ProtectedError" /\ db' = db)]_vars

\* A section with a child section was asked to be deleted and is still there.
C8_Witness ==
    /\ op.name = "delete_section"
    /\ result.status = "ProtectedError"
    /\ op.id \in DOMAIN sections
    /\ ChildSections(op.id) # {}

\* C9: every stored expenditure belongs to a section that has a parent.
C9_ExpenditureOnChild ==
    \A e \in DOMAIN expenditures : SectionHasParent(expenditures[e].section)

----------------------------------------------------------------------------
\* What the reports are to return, computed from the stored rows.
Roots(b) == {s \in SectionsOfBuilding(b) : ~ SectionHasParent(s)}
OwnLines(s) == ExpendituresOf({s})
ChildLines(s) == ExpendituresOf(ChildSections(s))
LinesOfBuilding(b, t) ==
    {e \in ExpendituresOf(SectionsOfBuilding(b)) : expenditures[e].type = t}

\* C5: get_parent_sections(building_id) returns exactly the sections of the
\* building whose parent is null; for a returned root with expenditures both
\* on itself and on its children, budget_parent is the sum of count * price
\* over its own expenditures and budget_child the sum over its children's.
C5_ParentSections ==
    op.name = "get_parent_sections" =>
        /\ result.status = "ok"
        /\ {r.id : r \in result.value} = Roots(op.building)
        /\ \A r \in result.value :
              (OwnLines(r.id) # {} /\ ChildLines(r.id) # {}) =>
                  /\ r.budget_parent = Some(SumLines(OwnLines(r.id)))
                  /\ r.budget_child = Some(SumLines(ChildLines(r.id)))

\* C6: for every root returned by get_parent_sections, budget_all is the
\* total of count * price over its own and its children's expenditures, a
\* missing part counting as zero: a number whenever one of the parts is.
C6_BudgetAll ==
    (/\ op.name = "get_parent_sections"
     /\ \E s \in Roots(op.building) : OwnLines(s) # {} \/ ChildLines(s) # {}) =>
        /\ result.status = "ok"
        /\ {r.id : r \in result.value} = Roots(op.building)
        /\ \A r \in result.value :
              (OwnLines(r.id) # {} \/ ChildLines(r.id) # {}) =>
                  r.budget_all = Some(SumLines(OwnLines(r.id)) + SumLines(ChildLines(r.id)))

\* C7: get_buildings returns one record per stored building, works_amount and
\* materials_amount being the sums of count * price over the building's
\* expenditures of that type, the number 0 when there is none.
C7_Buildings ==
    op.name = "get_buildings" =>
        /\ result.status = "ok"
        /\ result.value =
              {[id |-> b,
                works_amount |-> Some(SumLines(LinesOfBuilding(b, WORK))),
                materials_amount |-> Some(SumLines(LinesOfBuilding(b, MATERIAL)))] :
                 b \in buildings}

----------------------------------------------------------------------------
Finished(c) == pc[c] \in {"ok", "ValidationError", "DoesNotExist", "AttributeError"}
InRange(c) == args[c].discount \in 0..100
Exists(c) == args[c].section_id \in DOMAIN sections
Other(c) == CHOOSE o \in Callers : o # c

\* C3: for an existing section with stored price p and 0 <= d <= 100,
\* update_with_discount(section_id, d) completes without error and leaves the
\* stored price at p - p / 100 * d, changing only that row.
C3_DiscountApplied ==
    [][\A c \in Callers :
          (pc[c] = "compute" /\ pc'[c] # "compute" /\ InRange(c) /\ Exists(c)) =>
              LET id == args[c].section_id
              IN /\ pc'[c] = "ok"
                 /\ HasAttr(sections[id], "price")
                 /\ HasAttr(sections'[id], "price")
                 /\ sections'[id].price * 100 = Discounted(sections[id].price, args[c].discount)
                 /\ \A s \in DOMAIN sections \ {id} : sections'[s] = sections[s]
                 /\ buildings' = buildings
                 /\ expenditures' = expenditures]_vars

C10_BothSave ==
    \A c \in Callers :
        (/\ Finished(c) /\ Finished(Other(c))
         /\ args[c].discount \in 1..99 /\ args[Other(c)].discount \in 1..99
         /\ Exists(c) /\ args[c].section_id = args[Other(c)].section_id)
        => pc[c] = "ok"

\* No state has a stored section price written by one of two concurrent
\* calls: nothing stored ever changes under the callers.
NoLostUpdate ==
    [][db' = db]_vars

====
